---- MODULE Spec2Model ----
(***************************************************************************)
(* Model of the pandora-api-derive procedural macros (src/src/lib.rs):     *)
(* the two derive entry points, the attribute extraction they start with,  *)
(* the token synthesis of to_tokens, and the evaluation of the generated   *)
(* get_method() in the module where the derive was written.                *)
(*                                                                         *)
(* Text (identifiers, literals, module paths) is a sequence of one-        *)
(* character strings, so that case conversion, stringify! and rsplitn are  *)
(* computed character by character.                                        *)
(***************************************************************************)
EXTENDS Integers, Sequences, FiniteSets, TLC

VARIABLES
    input,      \* per invocation: the derive input handed over by the compiler
    result,     \* per invocation: what the entry point returned, or its panic
    called,     \* per invocation: the outcome of calling the generated get_method()
    word,       \* the name under case conversion
    history     \* the values word had before each conversion, oldest first

vars == <<input, result, called, word, history>>

(***************************************************************************)
(* Bounds.                                                                 *)
(***************************************************************************)
MaxIdentLen == 4
MaxPathDepth == 2
MaxPasses == 2

(***************************************************************************)
(* Characters.                                                             *)
(***************************************************************************)
Lowers == <<"a","b","c","d","e","f","g","h","i","j","k","l","m",
            "n","o","p","q","r","s","t","u","v","w","x","y","z">>
Uppers == <<"A","B","C","D","E","F","G","H","I","J","K","L","M",
            "N","O","P","Q","R","S","T","U","V","W","X","Y","Z">>
Digits == <<"0","1","2","3","4","5","6","7","8","9">>

InSeq(c, s) == \E i \in DOMAIN s : s[i] = c
IndexIn(c, s) == CHOOSE i \in DOMAIN s : s[i] = c

is_lowercase(c) == InSeq(c, Lowers)
is_uppercase(c) == InSeq(c, Uppers)
\* Fault variant of is_alphanumeric: digits are left out.
is_alphabetic(c) == InSeq(c, Lowers) \/ InSeq(c, Uppers)

is_alphanumeric(c) == InSeq(c, Lowers) \/ InSeq(c, Uppers) \/ InSeq(c, Digits)

to_lowercase(c) == IF is_uppercase(c) THEN Lowers[IndexIn(c, Uppers)] ELSE c
to_uppercase(c) == IF is_lowercase(c) THEN Uppers[IndexIn(c, Lowers)] ELSE c

RECURSIVE Concat(_)
Concat(ss) == IF ss = <<>> THEN <<>> ELSE Head(ss) \o Concat(Tail(ss))

(***************************************************************************)
(* heck's ToLowerCamelCase, called on the struct identifier.               *)
(***************************************************************************)
\* The input is split at every character that is not alphanumeric.
RECURSIVE SplitNonAlnum(_, _, _)
SplitNonAlnum(s, i, cur) ==
    IF i > Len(s) THEN <<cur>>
    ELSE IF is_alphanumeric(s[i]) THEN SplitNonAlnum(s, i + 1, Append(cur, s[i]))
    ELSE <<cur>> \o SplitNonAlnum(s, i + 1, <<>>)

\* One pass over a separator-free piece: a word ends after a character whose
\* word mode is Lowercase when an uppercase letter follows, and before the
\* last of a run of uppercase letters when a lowercase letter follows.
RECURSIVE ScanWords(_, _, _, _, _)
ScanWords(w, i, init, mode, acc) ==
    IF i > Len(w) THEN acc
    ELSE IF i = Len(w) THEN Append(acc, SubSeq(w, init, Len(w)))
    ELSE LET c == w[i]
             next == w[i + 1]
             next_mode == IF is_lowercase(c) THEN "Lowercase"
                          ELSE IF is_uppercase(c) THEN "Uppercase"
                          ELSE mode
         IN  IF next_mode = "Lowercase" /\ is_uppercase(next)
             THEN ScanWords(w, i + 1, i + 1, "Boundary",
                            Append(acc, SubSeq(w, init, i)))
             ELSE IF mode = "Uppercase" /\ is_uppercase(c) /\ is_lowercase(next)
             THEN ScanWords(w, i + 1, i, "Boundary",
                            Append(acc, SubSeq(w, init, i - 1)))
             ELSE ScanWords(w, i + 1, init, next_mode, acc)

RECURSIVE WordsOfPieces(_)
WordsOfPieces(pieces) ==
    IF pieces = <<>> THEN <<>>
    ELSE ScanWords(Head(pieces), 1, 1, "Boundary", <<>>)
         \o WordsOfPieces(Tail(pieces))

transform(s) == WordsOfPieces(SplitNonAlnum(s, 1, <<>>))

lowercase(w) == [i \in DOMAIN w |-> to_lowercase(w[i])]
capitalize(w) ==
    [i \in DOMAIN w |-> IF i = 1 THEN to_uppercase(w[i]) ELSE to_lowercase(w[i])]

\* The first word is written in lower case, every later word capitalized,
\* and nothing is written between the words.
to_lower_camel_case(s) ==
    LET ws == transform(s)
    IN  Concat([k \in DOMAIN ws |->
                  IF k = 1 THEN lowercase(ws[k]) ELSE capitalize(ws[k])])

(***************************************************************************)
(* Text constants of the source.                                           *)
(***************************************************************************)
Quote == "\""
Backslash == "\\"
S_Response == <<"R","e","s","p","o","n","s","e">>
S_Error == <<"E","r","r","o","r">>
S_PathSep == <<":",":">>
S_ApiV1 == <<"/","a","p","i","/","v","1","/">>

(***************************************************************************)
(* The derive input: which derive was written on the declaration, whether  *)
(* the token stream parses as a declaration, the identifier, the generics  *)
(* and the items of #[pandora_request(...)].  An attribute value is a      *)
(* literal: a string, a boolean or an integer.                             *)
(***************************************************************************)
LitStr(s) == [lit |-> "Str", str |-> s, bool |-> FALSE]
LitBool(b) == [lit |-> "Bool", str |-> <<>>, bool |-> b]
LitInt(s) == [lit |-> "Int", str |-> s, bool |-> FALSE]

Invocations == {"first", "second"}
Derives == {"PandoraJsonRequest", "PandoraRestRequest"}

GetFoo == <<"G","e","t","F","o","o">>
GetPlaylist == <<"G","e","t","P","l","a","y","l","i","s","t">>
AddFeedback == <<"A","d","d","F","e","e","d","b","a","c","k">>
Idents == {GetFoo, GetPlaylist, AddFeedback}

NoGenerics == [params |-> <<>>, where_clause |-> <<>>]
OneGeneric ==
    [params |-> <<[name |-> "T", bounds |-> "Clone", default |-> "u8"]>>,
     where_clause |-> <<"T: Send">>]
GenericsValues == {NoGenerics, OneGeneric}

FooResponse == <<"F","o","o">> \o S_Response
FooError == <<"F","o","o">> \o S_Error
NotAnIdent == <<"V","e","c","<","u","8",">">>
getFOOBar == <<"g","e","t","F","O","O","B","a","r">>

ResponseTypeValues == {<<>>, <<LitStr(FooResponse)>>, <<LitStr(NotAnIdent)>>}
ErrorTypeValues == {<<>>, <<LitStr(FooError)>>, <<LitStr(NotAnIdent)>>}
MethodNameValues == {<<>>, <<LitStr(getFOOBar)>>}
EncryptedValues == {<<>>, <<LitBool(TRUE)>>, <<LitBool(FALSE)>>, <<LitInt(<<"1">>)>>}
BogusKeyValues == {<<>>, <<LitInt(<<"1">>)>>}

NoAttrs ==
    [response_type |-> <<>>, error_type |-> <<>>, method_name |-> <<>>,
     encrypted |-> <<>>, bogus_key |-> <<>>]
AttrValues ==
    [response_type : ResponseTypeValues, error_type : ErrorTypeValues,
     method_name : MethodNameValues, encrypted : EncryptedValues,
     bogus_key : BogusKeyValues]

WellFormedInputs ==
    [derive : Derives, parses : {TRUE}, ident : Idents,
     generics : GenericsValues, attrs : AttrValues]
MalformedInputs ==
    [derive : Derives, parses : {FALSE}, ident : {<<>>},
     generics : {NoGenerics}, attrs : {NoAttrs}]
Inputs == WellFormedInputs \cup MalformedInputs

(***************************************************************************)
(* #[derive(FromDeriveInput)] #[darling(attributes(pandora_request))]:     *)
(* every item of the attribute is matched against the fields of the        *)
(* struct; an item that names no field, or whose literal is not of the     *)
(* field's type, is an error, and any error fails the extraction.          *)
(***************************************************************************)
StringFields == {"response_type", "error_type", "method_name"}
BoolFields == {"encrypted"}
AttrKeys == DOMAIN NoAttrs

S_true == <<"t","r","u","e">>
S_false == <<"f","a","l","s","e">>

FieldErrors(attrs) ==
    {[key |-> k, error |-> "Unknown field"] :
        k \in {k \in AttrKeys \ (StringFields \cup BoolFields) : attrs[k] # <<>>}}
    \cup
    {[key |-> k, error |-> "Unexpected literal type"] :
        k \in {k \in StringFields : attrs[k] # <<>> /\ attrs[k][1].lit # "Str"}}
    \cup
    {[key |-> k, error |-> "Unexpected literal type"] :
        k \in {k \in BoolFields :
                 attrs[k] # <<>> /\ attrs[k][1].lit \notin {"Bool", "Str"}}}
    \cup
    {[key |-> k, error |-> "Unknown literal value"] :
        k \in {k \in BoolFields :
                 /\ attrs[k] # <<>>
                 /\ attrs[k][1].lit = "Str"
                 /\ attrs[k][1].str \notin {S_true, S_false}}}

OptString(v) == IF v = <<>> THEN <<>> ELSE <<v[1].str>>
OptBool(v) ==
    IF v = <<>> THEN <<>>
    ELSE IF v[1].lit = "Bool" THEN <<v[1].bool>>
    ELSE <<v[1].str = S_true>>

from_derive_input(di) ==
    LET errs == FieldErrors(di.attrs)
    IN  IF errs # {}
        THEN [ok |-> FALSE, errors |-> errs, value |-> <<>>]
        ELSE [ok |-> TRUE, errors |-> {},
              value |-> <<[ident |-> di.ident,
                           generics |-> di.generics,
                           response_type |-> OptString(di.attrs.response_type),
                           error_type |-> OptString(di.attrs.error_type),
                           method_name |-> OptString(di.attrs.method_name),
                           encrypted |-> OptBool(di.attrs.encrypted)]>>]

(***************************************************************************)
(* format_ident!("{}", name) builds an identifier and panics when the text *)
(* is not one.                                                             *)
(***************************************************************************)
is_ident_start(c) == c = "_" \/ is_lowercase(c) \/ is_uppercase(c)
is_ident_continue(c) ==
    c = "_" \/ is_lowercase(c) \/ is_uppercase(c) \/ InSeq(c, Digits)
is_valid_ident(s) ==
    /\ s # <<>>
    /\ is_ident_start(s[1])
    /\ \A i \in DOMAIN s : is_ident_continue(s[i])

\* generics.split_for_impl(): the impl generics keep the bounds and drop the
\* defaults, the type generics keep the names, the where clause is passed on.
split_for_impl(generics) ==
    [imp |-> [i \in DOMAIN generics.params |->
                [name |-> generics.params[i].name,
                 bounds |-> generics.params[i].bounds]],
     ty |-> [i \in DOMAIN generics.params |-> generics.params[i].name],
     wher |-> generics.where_clause]

Tokens(tk) == [status |-> "tokens", tokens |-> <<tk>>, msg |-> "", errors |-> {}]
Panicked(m, errs) == [status |-> "panic", tokens |-> <<>>, msg |-> m, errors |-> errs]

(***************************************************************************)
(* impl ToTokens for PandoraJsonRequest.                                   *)
(***************************************************************************)
json_final_response_type(self) ==
    IF self.response_type # <<>> THEN self.response_type[1]
    ELSE self.ident \o S_Response

\* Fault variant of json_final_error_type: the default is taken from the
\* response_type override when there is one.
json_final_error_type_mixed(self) ==
    IF self.error_type # <<>> THEN self.error_type[1]
    ELSE IF self.response_type # <<>> THEN self.response_type[1]
    ELSE S_Error

json_final_error_type(self) ==
    IF self.error_type # <<>> THEN self.error_type[1] ELSE S_Error

\* With a method_name the body is stringify!(<string literal>).to_string();
\* without, the body reads module_path!() when it runs and formats
\* "{}.{}" with the converted identifier computed here.
json_get_method_decl(self) ==
    IF self.method_name # <<>>
    THEN [body |-> "stringify", literal |-> self.method_name[1],
          pre |-> <<>>, mid |-> <<>>, member |-> <<>>]
    ELSE [body |-> "module_path", literal |-> <<>>,
          pre |-> <<>>, mid |-> <<".">>,
          member |-> to_lower_camel_case(self.ident)]

\* Fault variant of json_encrypt_expr: an accessor returning false is
\* generated when there is no override.
json_encrypt_expr_defaulted(self) ==
    IF self.encrypted # <<>> THEN <<[returns |-> self.encrypted[1]]>>
    ELSE <<[returns |-> FALSE]>>

\* Some(b): fn encrypt_request(&self) -> bool { b };  None: no tokens.
json_encrypt_expr(self) ==
    IF self.encrypted # <<>> THEN <<[returns |-> self.encrypted[1]]>> ELSE <<>>

PandoraJsonRequest_to_tokens(self) ==
    LET final_response_type == json_final_response_type(self)
        final_error_type == json_final_error_type(self)
        g == split_for_impl(self.generics)
    IN  IF ~is_valid_ident(final_response_type) \/ ~is_valid_ident(final_error_type)
        THEN Panicked("not a valid Ident", {})
        ELSE Tokens([trait |-> "PandoraJsonApiRequest",
                     imp |-> g.imp, ident |-> self.ident, ty |-> g.ty,
                     wher |-> g.wher,
                     Response |-> final_response_type,
                     Error |-> final_error_type,
                     encrypt_request |-> json_encrypt_expr(self),
                     get_method |-> json_get_method_decl(self)])

(***************************************************************************)
(* impl ToTokens for PandoraRestRequest.                                   *)
(***************************************************************************)
rest_final_response_type(self) ==
    IF self.response_type # <<>> THEN self.response_type[1]
    ELSE self.ident \o S_Response

\* Fault variant of rest_final_error_type: the default is named after the
\* identifier, as the response type is.
rest_final_error_type_from_ident(self) ==
    IF self.error_type # <<>> THEN self.error_type[1]
    ELSE self.ident \o S_Error

rest_final_error_type(self) ==
    IF self.error_type # <<>> THEN self.error_type[1] ELSE S_Error

\* As for the JSON request, with the format "/api/v1/{}/{}".
rest_get_method_decl(self) ==
    IF self.method_name # <<>>
    THEN [body |-> "stringify", literal |-> self.method_name[1],
          pre |-> <<>>, mid |-> <<>>, member |-> <<>>]
    ELSE [body |-> "module_path", literal |-> <<>>,
          pre |-> S_ApiV1, mid |-> <<"/">>,
          member |-> to_lower_camel_case(self.ident)]

\* Fault variant of rest_encrypt_expr: an accessor returning false is
\* generated when there is no override.
rest_encrypt_expr_defaulted(self) ==
    IF self.encrypted # <<>> THEN <<[returns |-> self.encrypted[1]]>>
    ELSE <<[returns |-> FALSE]>>

rest_encrypt_expr(self) ==
    IF self.encrypted # <<>> THEN <<[returns |-> self.encrypted[1]]>> ELSE <<>>

PandoraRestRequest_to_tokens(self) ==
    LET final_response_type == rest_final_response_type(self)
        final_error_type == rest_final_error_type(self)
        g == split_for_impl(self.generics)
    IN  IF ~is_valid_ident(final_response_type) \/ ~is_valid_ident(final_error_type)
        THEN Panicked("not a valid Ident", {})
        ELSE Tokens([trait |-> "PandoraRestApiRequest",
                     imp |-> g.imp, ident |-> self.ident, ty |-> g.ty,
                     wher |-> g.wher,
                     Response |-> final_response_type,
                     Error |-> final_error_type,
                     encrypt_request |-> rest_encrypt_expr(self),
                     get_method |-> rest_get_method_decl(self)])

(***************************************************************************)
(* The entry points: syn::parse(input).unwrap(), then                      *)
(* from_derive_input(..).expect("Failed parsing macro input"), then the    *)
(* tokens of the request.                                                  *)
(***************************************************************************)
S_UnwrapErr == "called Result::unwrap() on an Err value"
S_ExpectErr == "Failed parsing macro input"

json_request_outcome(di) ==
    IF ~di.parses THEN Panicked(S_UnwrapErr, {})
    ELSE LET request == from_derive_input(di)
         IN  IF ~request.ok THEN Panicked(S_ExpectErr, request.errors)
             ELSE PandoraJsonRequest_to_tokens(request.value[1])

rest_request_outcome(di) ==
    IF ~di.parses THEN Panicked(S_UnwrapErr, {})
    ELSE LET request == from_derive_input(di)
         IN  IF ~request.ok THEN Panicked(S_ExpectErr, request.errors)
             ELSE PandoraRestRequest_to_tokens(request.value[1])

\* Fault variant of Returned: a panic ends the whole compilation, and the
\* results of the other invocations go with it.
ReturnedAborting(s, outcome) ==
    IF outcome.status = "panic" THEN [t \in Invocations |-> <<outcome>>]
    ELSE [result EXCEPT ![s] = <<outcome>>]

\* What one invocation hands back reaches the compiler for that invocation
\* alone: the macros keep no state of their own.
Returned(s, outcome) == [result EXCEPT ![s] = <<outcome>>]

derive_pandora_json_request(s) ==
    /\ input[s] # <<>>
    /\ input[s][1].derive = "PandoraJsonRequest"
    /\ result[s] = <<>>
    /\ result' = Returned(s, json_request_outcome(input[s][1]))
    /\ UNCHANGED <<input, called, word, history>>

derive_pandora_rest_request(s) ==
    /\ input[s] # <<>>
    /\ input[s][1].derive = "PandoraRestRequest"
    /\ result[s] = <<>>
    /\ result' = Returned(s, rest_request_outcome(input[s][1]))
    /\ UNCHANGED <<input, called, word, history>>

(***************************************************************************)
(* The generated get_method(), run in the module of the declaration.       *)
(***************************************************************************)
Crate == <<"a","p","p">>
Modules == {<<"p","l","a","y","l","i","s","t">>, <<"f","e","e","d","b","a","c","k">>}

RECURSIVE SeqsUpTo(_, _)
SeqsUpTo(S, n) ==
    IF n = 0 THEN {<<>>}
    ELSE LET shorter == SeqsUpTo(S, n - 1)
         IN  shorter \cup {Append(q, x) : q \in shorter, x \in S}

\* The crate, then the modules the declaration is nested in.
ModulePaths == {<<Crate>> \o q : q \in SeqsUpTo(Modules, MaxPathDepth)}

\* std::module_path!(): the segments joined by "::".
RECURSIVE module_path(_)
module_path(segments) ==
    IF Len(segments) = 1 THEN segments[1]
    ELSE segments[1] \o S_PathSep \o module_path(Tail(segments))

\* Fault variant of rsplitn2_next: splitn instead of rsplitn, the text before
\* the first "::".
splitn2_next(s) ==
    LET at == {i \in 1..(Len(s) - 1) : SubSeq(s, i, i + 1) = S_PathSep}
    IN  IF at = {} THEN <<s>>
        ELSE LET first == CHOOSE i \in at : \A j \in at : i <= j
             IN  <<SubSeq(s, 1, first - 1)>>

\* s.rsplitn(2, "::").next(): the text after the last "::", the whole text
\* when there is no "::"; the first item of the iterator always exists.
rsplitn2_next(s) ==
    LET at == {i \in 1..(Len(s) - 1) : SubSeq(s, i, i + 1) = S_PathSep}
    IN  IF at = {} THEN <<s>>
        ELSE LET last == CHOOSE i \in at : \A j \in at : j <= i
             IN  <<SubSeq(s, last + 2, Len(s))>>

\* The text of a string literal token: the quotes, and a backslash before
\* every quote and backslash inside.
escape(c) == IF c = Quote \/ c = Backslash THEN <<Backslash, c>> ELSE <<c>>
literal_string(s) == <<Quote>> \o Concat([i \in DOMAIN s |-> escape(s[i])]) \o <<Quote>>

\* stringify!(tokens) is the text of the tokens.
stringify(s) == literal_string(s)

S_NoModule == "Could not infer a valid method name since there is no current module"

get_method(decl, segments) ==
    IF decl.body = "stringify"
    THEN [panic |-> "", value |-> stringify(decl.literal)]
    ELSE LET module_name == module_path(segments)
             class_name == rsplitn2_next(module_name)
         IN  IF class_name = <<>>
             THEN [panic |-> S_NoModule, value |-> <<>>]
             ELSE [panic |-> "",
                   value |-> decl.pre \o class_name[1] \o decl.mid \o decl.member]

call_get_method(s, segments) ==
    /\ result[s] # <<>>
    /\ result[s][1].status = "tokens"
    /\ called[s] = <<>>
    /\ called' = [called EXCEPT ![s] =
                    <<[path |-> segments,
                       ret |-> get_method(result[s][1].tokens[1].get_method,
                                          segments)]>>]
    /\ UNCHANGED <<input, result, word, history>>

(***************************************************************************)
(* One annotated declaration: expanded, then its get_method() called.      *)
(***************************************************************************)
Idle == [s \in Invocations |-> <<>>]

Init ==
    /\ \E di \in Inputs : input = [Idle EXCEPT !["first"] = <<di>>]
    /\ result = Idle
    /\ called = Idle
    /\ word = <<>>
    /\ history = <<>>

Next ==
    \E s \in Invocations :
        \/ derive_pandora_json_request(s)
        \/ derive_pandora_rest_request(s)
        \/ \E segments \in ModulePaths : call_get_method(s, segments)

Spec == Init /\ [][Next]_vars

(***************************************************************************)
(* Two annotated declarations of one compilation, expanded in any order.   *)
(* The second differs from the first in at most one respect: the derive,   *)
(* the identifier, the generics, one attribute item, or being unparsable.  *)
(***************************************************************************)
Neighbours(di) ==
    IF di.parses
    THEN {di}
         \cup {[di EXCEPT !.derive = d] : d \in Derives}
         \cup {[di EXCEPT !.ident = i] : i \in Idents}
         \cup {[di EXCEPT !.generics = g] : g \in GenericsValues}
         \cup {[di EXCEPT !.attrs = a] :
                 a \in {a \in AttrValues :
                          Cardinality({k \in AttrKeys : a[k] # di.attrs[k]}) = 1}}
         \cup {m \in MalformedInputs : m.derive = di.derive}
    ELSE MalformedInputs
         \cup {w \in WellFormedInputs : w.derive = di.derive /\ w.attrs = NoAttrs}

InitPair ==
    /\ \E di \in Inputs : \E dj \in Neighbours(di) :
          input = [s \in Invocations |-> IF s = "first" THEN <<di>> ELSE <<dj>>]
    /\ result = Idle
    /\ called = Idle
    /\ word = <<>>
    /\ history = <<>>

NextPair ==
    \E s \in Invocations :
        \/ derive_pandora_json_request(s)
        \/ derive_pandora_rest_request(s)

SpecPair == InitPair /\ [][NextPair]_vars

(***************************************************************************)
(* The case conversion on its own: a name is drawn, and converted again    *)
(* and again.                                                              *)
(***************************************************************************)
CaseAlphabet == {"a", "b", "A", "B", "1", "_"}

RECURSIVE SeqsOfLen(_, _)
SeqsOfLen(S, n) ==
    IF n = 0 THEN {<<>>}
    ELSE {Append(q, x) : q \in SeqsOfLen(S, n - 1), x \in S}

\* The names a declaration can bear, up to MaxIdentLen characters.
BoundedIdents ==
    {q \in UNION {SeqsOfLen(CaseAlphabet, n) : n \in 1..MaxIdentLen} :
        is_valid_ident(q)}

InitCase ==
    /\ word \in BoundedIdents
    /\ history = <<>>
    /\ input = Idle
    /\ result = Idle
    /\ called = Idle

Convert ==
    /\ Len(history) < MaxPasses
    /\ word' = to_lower_camel_case(word)
    /\ history' = Append(history, word)
    /\ UNCHANGED <<input, result, called>>

NextCase == Convert

SpecCase == InitCase /\ [][NextCase]_vars

(***************************************************************************)
(* Properties.                                                             *)
(***************************************************************************)
Finished(s) == result[s] # <<>>
Emitted(s) == Finished(s) /\ result[s][1].status = "tokens"
Impl(s) == result[s][1].tokens[1]
Attrs(s) == input[s][1].attrs
WasCalled(s) == called[s] # <<>>

\* The lower camel case of the identifiers of Idents, written out.
LowerCamel(ident) ==
    CASE ident = GetFoo -> <<"g","e","t","F","o","o">>
      [] ident = GetPlaylist -> <<"g","e","t","P","l","a","y","l","i","s","t">>
      [] ident = AddFeedback -> <<"a","d","d","F","e","e","d","b","a","c","k">>

\* C1 (as claimed): with a method_name override, get_method() returns the
\* override literal exactly, character for character, under either derive
\* and in every module.
C1_OverrideReturnedVerbatim ==
    \A s \in Invocations :
        (WasCalled(s) /\ Attrs(s).method_name # <<>>)
            => /\ called[s][1].ret.panic = ""
               /\ called[s][1].ret.value = Attrs(s).method_name[1].str

C3_AssociatedTypes ==
    \A s \in Invocations :
        Emitted(s)
            => /\ Impl(s).Response =
                    IF Attrs(s).response_type # <<>>
                    THEN Attrs(s).response_type[1].str
                    ELSE input[s][1].ident \o <<"R","e","s","p","o","n","s","e">>
               /\ Impl(s).Error =
                    IF Attrs(s).error_type # <<>>
                    THEN Attrs(s).error_type[1].str
                    ELSE <<"E","r","r","o","r">>

C3_Witness ==
    \E s \in Invocations :
        /\ Emitted(s)
        /\ input[s][1].derive = "PandoraRestRequest"
        /\ Attrs(s).response_type = <<>>
        /\ Attrs(s).error_type # <<>>
        /\ Impl(s).Response =
             <<"A","d","d","F","e","e","d","b","a","c","k",
               "R","e","s","p","o","n","s","e">>
        /\ Impl(s).Error = FooError

\* C4 (as claimed): every generated implementation contains an
\* encrypt_request() accessor, returning the encrypted override when given
\* and false when it is absent.
C4_AccessorAlwaysPresent ==
    \A s \in Invocations :
        Emitted(s)
            => /\ Impl(s).encrypt_request # <<>>
               /\ Impl(s).encrypt_request[1].returns =
                    IF Attrs(s).encrypted # <<>> THEN Attrs(s).encrypted[1].bool
                    ELSE FALSE

\* C4 (amended): the generated implementation contains an encrypt_request()
\* accessor exactly when the encrypted override is given, and the accessor
\* returns that constant; without the override no accessor is generated.
C4_AccessorOnlyWithOverride ==
    \A s \in Invocations :
        Emitted(s)
            => IF Attrs(s).encrypted # <<>>
               THEN Impl(s).encrypt_request =
                        <<[returns |-> Attrs(s).encrypted[1].bool]>>
               ELSE Impl(s).encrypt_request = <<>>

C4_Witness ==
    \E s \in Invocations :
        /\ Emitted(s)
        /\ Attrs(s).encrypted = <<>>
        /\ Impl(s).encrypt_request = <<>>
        /\ input[s][1].ident = GetPlaylist

\* C5 (as claimed): a declaration at the outermost scope with no
\* method_name override gets no implementation: its get_method() never
\* yields a method name there.
C5_OutermostScopeRejected ==
    \A s \in Invocations :
        ~ /\ WasCalled(s)
          /\ Len(called[s][1].path) = 1
          /\ Attrs(s).method_name = <<>>
          /\ called[s][1].ret.panic = ""
          /\ called[s][1].ret.value # <<>>

\* C6 (as claimed): an unparsable declaration, an unknown attribute key or a
\* wrong-typed attribute value never ends the invocation in a panic.
C6_FailuresAreNotPanics ==
    \A s \in Invocations :
        (Finished(s) /\ (~input[s][1].parses \/ FieldErrors(Attrs(s)) # {}))
            => result[s][1].status # "panic"

\* C7: a step of one invocation gives that invocation its result once and
\* leaves the inputs and the results of every other invocation as they
\* were; an invocation that fails hands back no implementation.
C7_Step ==
    \A s \in Invocations :
        result'[s] # result[s]
            => /\ result[s] = <<>>
               /\ \A t \in Invocations \ {s} : result'[t] = result[t]
               /\ input' = input
               /\ result'[s][1].status = "panic" => result'[s][1].tokens = <<>>

Overrides == {"response_type", "error_type", "method_name", "encrypted"}

PartOf(k, impl) ==
    CASE k = "response_type" -> <<impl.Response>>
      [] k = "error_type" -> <<impl.Error>>
      [] k = "method_name" -> <<impl.get_method>>
      [] k = "encrypted" -> <<impl.encrypt_request>>

Differing(s, t) == {k \in Overrides : Attrs(s)[k] # Attrs(t)[k]}

C8_OverridesIndependent ==
    \A s \in Invocations : \A t \in Invocations :
        ( /\ Emitted(s) /\ Emitted(t)
          /\ input[s][1].derive = input[t][1].derive
          /\ input[s][1].ident = input[t][1].ident
          /\ input[s][1].generics = input[t][1].generics
          /\ Cardinality(Differing(s, t)) <= 1 )
            => /\ \A k \in Overrides \ Differing(s, t) :
                     PartOf(k, Impl(s)) = PartOf(k, Impl(t))
               /\ Impl(s).imp = Impl(t).imp
               /\ Impl(s).ty = Impl(t).ty
               /\ Impl(s).wher = Impl(t).wher

C8_Witness ==
    /\ Emitted("first") /\ Emitted("second")
    /\ input["first"][1].generics = OneGeneric
    /\ input["second"][1].generics = OneGeneric
    /\ Differing("first", "second") = {"encrypted"}
    /\ Attrs("first").method_name # <<>>
    /\ Impl("first").encrypt_request # Impl("second").encrypt_request
    /\ Impl("first").get_method = Impl("second").get_method

C9_Idempotent ==
    Len(history) >= 2 => word = history[Len(history)]

AsciiLetterOrDigit(c) == InSeq(c, Lowers) \/ InSeq(c, Uppers) \/ InSeq(c, Digits)

\* C9 (amended): for every name made of ASCII letters and digits only,
\* converting twice gives what converting once gives.
C9_IdempotentWithoutSeparators ==
    ( /\ Len(history) >= 2
      /\ \A i \in DOMAIN history[1] : AsciiLetterOrDigit(history[1][i]) )
        => word = history[Len(history)]

C9_Witness ==
    /\ Len(history) = 2
    /\ history[1] = <<"A", "B", "1", "a">>
    /\ history[2] # history[1]
    /\ word = history[2]

====
